---- MODULE Spec2Model ----
(***************************************************************************)
(* Model of basic_models/admin.py: the ModelAdmin mixins UserModelAdmin    *)
(* (save_model, save_formset, _update_instance) and ActiveModelAdmin       *)
(* (_set_objects_active, activate_objects, deactivate_objects,             *)
(* get_actions), run against a transactional row store with row locks     *)
(* (transaction.atomic, QuerySet.select_for_update).                       *)
(***************************************************************************)
EXTENDS Integers, Sequences, FiniteSets, TLC

\* Number of primary keys the store hands out (pks are 1..NumRecords).
NumRecords == 3

Records == 1..NumRecords

\* Concurrent admin requests running a bulk action.
Procs == {"p1", "p2"}

Users == {"u1", "u2"}

NoUser == "nobody"

NoProc == "none"

\* request.user of the request a process serves.
RequestUser(p) == IF p = "p1" THEN "u1" ELSE "u2"

\* The persisted columns of a record.
FieldNames == {"is_active", "created_by", "updated_by"}

NoRow == [exists |-> FALSE, is_active |-> FALSE, created_by |-> NoUser, updated_by |-> NoUser]

Min(S) == CHOOSE x \in S : \A y \in S : x <= y

EmptyMap == [x \in {} |-> NoRow]

VARIABLES
    db,        \* committed table: pk -> row
    lock,      \* row lock holder: pk -> process or NoProc
    pc,        \* position of each request inside _set_objects_active
    sel,       \* pks matched by the request's queryset
    target,    \* the `active` argument
    objs,      \* model instances fetched by select_for_update: pk -> instance
    wr,        \* rows written inside the open transaction: pk -> row
    count,     \* the local counter
    msgs,      \* messages given to message_user by the current invocation
    hist,      \* committed invocations on record (at most two), oldest first
    lastCommit,\* the request whose commit was the latest, while it has not returned
    nextpk,    \* next value of the auto-increment primary key
    creator,   \* user of the first save of each pk (NoUser: never saved)
    log,       \* store operations of the last save_model / save_formset call
    call,      \* arguments and outcome of the last save_model / save_formset call
    menu       \* per request: last get_actions call

vars == <<db, lock, pc, sel, target, objs, wr, count, msgs, hist, lastCommit, nextpk, creator, log, call, menu>>

toggleVars == <<lock, pc, sel, target, objs, wr, count, msgs, hist, lastCommit>>

saveVars == <<nextpk, creator, log, call>>

----------------------------------------------------------------------------
\* Model.save(update_fields=...): only the named columns of the row are
\* written from the instance; every other column keeps its stored value.
Save(row, obj, update_fields) ==
    [f \in DOMAIN row |->
        IF f = "exists" THEN TRUE
        ELSE IF f \in update_fields THEN obj[f] ELSE row[f]]

\* A model instance loaded from row `pk`.
Instance(pk, row) ==
    [pk |-> pk, is_active |-> row.is_active,
     created_by |-> row.created_by, updated_by |-> row.updated_by]

\* UserModelAdmin._update_instance: pk 0 stands for None (both are falsy).
UpdateInstance_always(instance, user) ==
    [instance EXCEPT !.created_by = user, !.updated_by = user]

UpdateInstance(instance, user) ==
    LET i1 == IF instance.pk = 0 THEN [instance EXCEPT !.created_by = user]
              ELSE instance
    IN  [i1 EXCEPT !.updated_by = user]

----------------------------------------------------------------------------
\* ActiveModelAdmin._set_objects_active

\* Body of the for loop: obj.is_active = active; obj.save(update_fields=['is_active']).
\* Gives the row as written; `user` is request.user, which the loop does not use.
LoopBody_constTrue(row, obj, active, user) ==
    Save(row, [obj EXCEPT !.is_active = TRUE], {"is_active"})

LoopBody_flip(row, obj, active, user) ==
    Save(row, [obj EXCEPT !.is_active = ~obj.is_active], {"is_active"})

LoopBody_stamped(row, obj, active, user) ==
    Save(row, UpdateInstance([obj EXCEPT !.is_active = active], user), FieldNames)

LoopBody(row, obj, active, user) ==
    Save(row, [obj EXCEPT !.is_active = active], {"is_active"})

\* count += 1
NextCount_changedOnly(c, obj, active) == IF obj.is_active = active THEN c ELSE c + 1

NextCount(c, obj, active) == c + 1

\* model_ngettext(self.opts, count): the singular name for exactly one.
ModelNgettext(n) == IF n = 1 THEN "verbose_name" ELSE "verbose_name_plural"

\* The text handed to message_user.
Message_swapped(active, c) ==
    [verb |-> (IF active THEN "de" ELSE "") \o "activated", count |-> c,
     items |-> ModelNgettext(c)]

Message(active, c) ==
    [verb |-> (IF active THEN "" ELSE "de") \o "activated", count |-> c,
     items |-> ModelNgettext(c)]

\* select_for_update: a row is handed out only when no other transaction holds it.
CanLock_noForUpdate(p, r) == TRUE

CanLock(p, r) == lock[r] = NoProc

\* transaction.atomic, normal exit: the transaction's writes become the table.
Committed(d, w) == [r \in Records |-> IF r \in DOMAIN w THEN w[r] ELSE d[r]]

\* transaction.atomic, exit by exception: the transaction's writes are dropped.
RolledBack_autocommit(d, w) == Committed(d, w)

RolledBack(d, w) == d

Released(p) == [r \in Records |-> IF lock[r] = p THEN NoProc ELSE lock[r]]

Extend(f, k, v) == [x \in DOMAIN f \cup {k} |-> IF x = k THEN v ELSE f[x]]

\* activate_objects (active = TRUE) / deactivate_objects (active = FALSE):
\* enter the atomic block, count = 0, the queryset is not yet evaluated.
Begin(p, S, active) ==
    /\ pc[p] = "idle"
    /\ sel' = [sel EXCEPT ![p] = S]
    /\ target' = [target EXCEPT ![p] = active]
    /\ objs' = [objs EXCEPT ![p] = EmptyMap]
    /\ wr' = [wr EXCEPT ![p] = EmptyMap]
    /\ count' = [count EXCEPT ![p] = 0]
    /\ msgs' = [msgs EXCEPT ![p] = <<>>]
    /\ pc' = [pc EXCEPT ![p] = IF S = {} THEN "saving" ELSE "locking"]
    /\ UNCHANGED <<db, lock, hist, lastCommit, saveVars, menu>>

activate_objects(p) == \E S \in SUBSET Records : Begin(p, S, TRUE)

deactivate_objects(p) == \E S \in SUBSET Records : Begin(p, S, FALSE)

\* queryset.select_for_update() evaluated: rows are locked and read one by one
\* in the order the store returns them; a row held by another transaction
\* makes the query wait.
LockRow(p) ==
    /\ pc[p] = "locking"
    /\ LET r == Min(sel[p] \ DOMAIN objs[p]) IN
        /\ CanLock(p, r)
        /\ lock' = [lock EXCEPT ![r] = p]
        /\ objs' = [objs EXCEPT ![p] = Extend(objs[p], r, Instance(r, db[r]))]
        /\ pc' = [pc EXCEPT ![p] =
                    IF sel[p] \ DOMAIN objs[p] = {r} THEN "saving" ELSE "locking"]
    /\ UNCHANGED <<db, sel, target, wr, count, msgs, hist, lastCommit, saveVars, menu>>

\* The wait for a row lock ends in a database error (lock timeout, deadlock
\* victim): the exception leaves the atomic block, which rolls back.
LockFail(p) ==
    /\ pc[p] = "locking"
    /\ lock[Min(sel[p] \ DOMAIN objs[p])] \notin {NoProc, p}
    /\ db' = RolledBack(db, wr[p])
    /\ lock' = Released(p)
    /\ objs' = [objs EXCEPT ![p] = EmptyMap]
    /\ wr' = [wr EXCEPT ![p] = EmptyMap]
    /\ pc' = [pc EXCEPT ![p] = "failed"]
    /\ UNCHANGED <<sel, target, count, msgs, hist, lastCommit, saveVars, menu>>

\* One iteration of the for loop.
SaveRow(p) ==
    /\ pc[p] = "saving"
    /\ sel[p] \ DOMAIN wr[p] # {}
    /\ LET r == Min(sel[p] \ DOMAIN wr[p]) IN
        /\ wr' = [wr EXCEPT ![p] =
                    Extend(wr[p], r, LoopBody(db[r], objs[p][r], target[p], RequestUser(p)))]
        /\ count' = [count EXCEPT ![p] = NextCount(count[p], objs[p][r], target[p])]
    /\ UNCHANGED <<db, lock, pc, sel, target, objs, msgs, hist, lastCommit, saveVars, menu>>

\* obj.save raises (a database error): the exception leaves the atomic block.
SaveFail(p) ==
    /\ pc[p] = "saving"
    /\ sel[p] \ DOMAIN wr[p] # {}
    /\ db' = RolledBack(db, wr[p])
    /\ lock' = Released(p)
    /\ objs' = [objs EXCEPT ![p] = EmptyMap]
    /\ wr' = [wr EXCEPT ![p] = EmptyMap]
    /\ pc' = [pc EXCEPT ![p] = "failed"]
    /\ UNCHANGED <<sel, target, count, msgs, hist, lastCommit, saveVars, menu>>

\* self.message_user(...) after the loop, still inside the atomic block.
MessageUser(p) ==
    /\ pc[p] = "saving"
    /\ sel[p] \ DOMAIN wr[p] = {}
    /\ msgs' = [msgs EXCEPT ![p] = Append(msgs[p], Message(target[p], count[p]))]
    /\ pc' = [pc EXCEPT ![p] = "messaged"]
    /\ UNCHANGED <<db, lock, sel, target, objs, wr, count, hist, lastCommit, saveVars, menu>>

\* The atomic block is left normally: commit, locks released.
CommitTxn(p) ==
    /\ pc[p] = "messaged"
    /\ db' = Committed(db, wr[p])
    /\ lock' = Released(p)
    /\ objs' = [objs EXCEPT ![p] = EmptyMap]
    /\ wr' = [wr EXCEPT ![p] = EmptyMap]
    /\ pc' = [pc EXCEPT ![p] = "done"]
    /\ lastCommit' = p
    /\ UNCHANGED <<sel, target, count, msgs, saveVars, menu>>

\* The response is sent; the request's locals are gone and the admin session
\* is free to post the next action.
ReturnResponse(p) ==
    /\ pc[p] \in {"done", "failed"}
    /\ pc' = [pc EXCEPT ![p] = "idle"]
    /\ sel' = [sel EXCEPT ![p] = {}]
    /\ target' = [target EXCEPT ![p] = FALSE]
    /\ count' = [count EXCEPT ![p] = 0]
    /\ msgs' = [msgs EXCEPT ![p] = <<>>]
    /\ lastCommit' = IF lastCommit = p THEN NoProc ELSE lastCommit
    /\ UNCHANGED <<db, lock, objs, wr, saveVars, menu>>

Return(p) == ReturnResponse(p) /\ UNCHANGED hist

Commit(p) == CommitTxn(p) /\ UNCHANGED hist

\* The same commit and return, keeping a record of committed invocations for
\* the sequential specification: the last committed invocation and, once the
\* next one has committed and until it returns, that one after it.
RecordedCommit(p) ==
    /\ CommitTxn(p)
    /\ hist' = hist \o <<[sel |-> sel[p], target |-> target[p],
                          count |-> msgs[p][1].count, pre |-> db]>>

RecordedReturn(p) ==
    /\ ReturnResponse(p)
    /\ hist' = IF Len(hist) = 2 THEN Tail(hist) ELSE hist

\* Rows of the toggle specification: every pk exists, stamped by u1.
InitRows == [Records -> {[exists |-> TRUE, is_active |-> a, created_by |-> "u1",
                          updated_by |-> "u1"] : a \in BOOLEAN}]

InitToggleLocals ==
    /\ lock = [r \in Records |-> NoProc]
    /\ pc = [p \in Procs |-> "idle"]
    /\ sel = [p \in Procs |-> {}]
    /\ target = [p \in Procs |-> FALSE]
    /\ objs = [p \in Procs |-> EmptyMap]
    /\ wr = [p \in Procs |-> EmptyMap]
    /\ count = [p \in Procs |-> 0]
    /\ msgs = [p \in Procs |-> <<>>]
    /\ hist = <<>>
    /\ lastCommit = NoProc

InitSaveLocals ==
    /\ nextpk = 1
    /\ creator = [r \in Records |-> NoUser]
    /\ log = <<>>
    /\ call = [op |-> "none", user |-> NoUser, marked |-> {}, hostDeleted |-> {}, saved |-> {}]

InitMenu ==
    menu = [p \in Procs |-> [called |-> FALSE, inherited |-> {}, perm |-> FALSE, actions |-> {}]]

Init ==
    /\ db \in InitRows
    /\ InitToggleLocals
    /\ InitSaveLocals
    /\ InitMenu

Next ==
    \E p \in Procs :
        \/ activate_objects(p)
        \/ deactivate_objects(p)
        \/ LockRow(p)
        \/ LockFail(p)
        \/ SaveRow(p)
        \/ SaveFail(p)
        \/ MessageUser(p)
        \/ Commit(p)
        \/ Return(p)

Spec == Init /\ [][Next]_vars

\* One request after another: invocations of a single admin session.
SeqNext ==
    \/ activate_objects("p1")
    \/ deactivate_objects("p1")
    \/ LockRow("p1")
    \/ SaveRow("p1")
    \/ SaveFail("p1")
    \/ MessageUser("p1")
    \/ RecordedCommit("p1")
    \/ RecordedReturn("p1")

SeqSpec == Init /\ [][SeqNext]_vars

----------------------------------------------------------------------------
\* UserModelAdmin.save_model / save_formset

\* Number of primary keys the auto-increment column hands out to new instances
\* (at most NumRecords).
MaxPk == 2

RECURSIVE SortedSeq(_)
\* The pks of S in the order the store returns them.
SortedSeq(S) == IF S = {} THEN <<>> ELSE <<Min(S)>> \o SortedSeq(S \ {Min(S)})

\* Model.save(): a full save. An instance without pk is inserted under the
\* next auto-increment value, else its row is rewritten from the instance.
SavedPk(instance, npk) == IF instance.pk = 0 THEN npk ELSE instance.pk

ModelSave(d, instance, npk) ==
    [d EXCEPT ![SavedPk(instance, npk)] = Save(@, instance, FieldNames)]

\* form.save(commit=False): the form's instance; pk 0 is an add form, otherwise
\* the instance was loaded from its row. created_by and updated_by are
\* readonly_fields, so no form sets them (the editable fields are left as loaded).
FormInstance(d, pk) ==
    IF pk = 0
    THEN [pk |-> 0, is_active |-> TRUE, created_by |-> NoUser, updated_by |-> NoUser]
    ELSE Instance(pk, d[pk])

\* instance stamped, then saved: what save_model and the loop of save_formset do.
StampAndSave(d, instance, user, npk) == ModelSave(d, UpdateInstance(instance, user), npk)

FirstSaver(c, pk, user) == IF c[pk] = NoUser THEN [c EXCEPT ![pk] = user] ELSE c

\* What the call record keeps of an instance handed to the save loop.
Saved(instance, npk) ==
    [pk |-> SavedPk(instance, npk), new |-> instance.pk = 0,
     created_by |-> instance.created_by]

save_model(user, pk) ==
    /\ pk = 0 => nextpk <= MaxPk
    /\ pk # 0 => db[pk].exists
    /\ LET instance == FormInstance(db, pk) IN
        /\ db' = StampAndSave(db, instance, user, nextpk)
        /\ nextpk' = IF pk = 0 THEN nextpk + 1 ELSE nextpk
        /\ creator' = FirstSaver(creator, SavedPk(instance, nextpk), user)
        /\ log' = <<[op |-> "save", pk |-> SavedPk(instance, nextpk)]>>
        /\ call' = [op |-> "save_model", user |-> user, marked |-> {}, hostDeleted |-> {},
                    saved |-> {Saved(instance, nextpk)}]
    /\ UNCHANGED <<toggleVars, menu>>

RECURSIVE DeleteObjects(_, _, _)
\* for obj in formset.deleted_objects: obj.delete(), inside try/except AssertionError.
\* Model.delete() asserts that the instance still has a pk (an instance the host
\* already deleted has pk None) and the first AssertionError ends the loop.
\* Gives the table and the rows deleted, in order.
DeleteObjects(objects, d, done) ==
    IF objects = <<>> THEN [db |-> d, deleted |-> done]
    ELSE IF Head(objects).pk = 0 THEN [db |-> d, deleted |-> done]
    ELSE DeleteObjects(Tail(objects), [d EXCEPT ![Head(objects).pk] = NoRow],
                       Append(done, Head(objects).pk))

RECURSIVE SaveInstances(_, _, _, _)
\* for instance in instances: _update_instance(instance, user); instance.save()
SaveInstances(instances, d, user, npk) ==
    IF instances = <<>> THEN d
    ELSE SaveInstances(Tail(instances),
                       StampAndSave(d, Head(instances), user, npk), user,
                       IF Head(instances).pk = 0 THEN npk + 1 ELSE npk)

\* The store operations of save_formset, in the order made.
FormsetLog(deleted, saves) ==
    [i \in 1..Len(deleted) |-> [op |-> "delete", pk |-> deleted[i]]] \o
    [i \in 1..Len(saves) |-> [op |-> "save", pk |-> saves[i].pk]]

\* marked: rows the formset marked for deletion; hostDeleted: those the host's
\* formset.save(commit=False) has already deleted (their instances have pk None);
\* changed: changed rows; adds: number of add forms.
save_formset(user, marked, hostDeleted, changed, adds) ==
    /\ hostDeleted \subseteq marked
    /\ changed \cap marked = {}
    /\ \A r \in marked \cup changed : db[r].exists
    /\ nextpk + adds <= MaxPk + 1
    /\ LET d0 == [r \in Records |-> IF r \in hostDeleted THEN NoRow ELSE db[r]]
           deleted_objects == [i \in 1..Cardinality(marked) |->
                                 [pk |-> IF SortedSeq(marked)[i] \in hostDeleted
                                         THEN 0 ELSE SortedSeq(marked)[i]]]
           instances == [i \in 1..Cardinality(changed) |->
                            FormInstance(d0, SortedSeq(changed)[i])] \o
                        [i \in 1..adds |-> FormInstance(d0, 0)]
           del == DeleteObjects(deleted_objects, d0, <<>>)
           saves == [i \in 1..Len(instances) |->
                        Saved(instances[i],
                              nextpk + i - 1 - Cardinality(changed))]
       IN
        /\ db' = SaveInstances(instances, del.db, user, nextpk)
        /\ nextpk' = nextpk + adds
        /\ creator' = [r \in Records |->
                         IF creator[r] = NoUser /\ \E i \in 1..Len(saves) : saves[i].pk = r
                         THEN user ELSE creator[r]]
        /\ log' = FormsetLog(del.deleted, saves)
        /\ call' = [op |-> "save_formset", user |-> user, marked |-> marked,
                    hostDeleted |-> hostDeleted,
                    saved |-> {saves[i] : i \in 1..Len(saves)}]
    /\ UNCHANGED <<toggleVars, menu>>

Existing == {r \in Records : db[r].exists}

InitSave ==
    /\ db = [r \in Records |-> NoRow]
    /\ InitToggleLocals
    /\ InitSaveLocals
    /\ InitMenu

SaveNext ==
    \E user \in Users :
        \/ \E pk \in 0..MaxPk : save_model(user, pk)
        \/ \E marked \in SUBSET Existing :
              \E hostDeleted \in SUBSET marked, changed \in SUBSET (Existing \ marked) :
                  \E adds \in 0..MaxPk :
                      save_formset(user, marked, hostDeleted, changed, adds)

SaveSpec == InitSave /\ [][SaveNext]_vars

----------------------------------------------------------------------------
\* ActiveModelAdmin.get_actions

\* Names super().get_actions(request) can return: the site-wide delete action,
\* the two actions of the class, and another site-wide action.
ActionNames == {"delete_selected", "activate_objects", "deactivate_objects", "export_selected"}

\* The dict returned: inherited actions, without delete_selected when the
\* user lacks the delete permission.
Actions_dropAlways(inherited, has_delete_permission) == inherited \ {"delete_selected"}

Actions(inherited, has_delete_permission) ==
    IF ~has_delete_permission
    THEN (IF "delete_selected" \in inherited THEN inherited \ {"delete_selected"}
          ELSE inherited)
    ELSE inherited

get_actions(p, inherited, has_delete_permission) ==
    /\ menu' = [menu EXCEPT ![p] =
                  [called |-> TRUE, inherited |-> inherited,
                   perm |-> has_delete_permission,
                   actions |-> Actions(inherited, has_delete_permission)]]
    /\ UNCHANGED <<db, toggleVars, saveVars>>

ActionsNext ==
    \E p \in Procs, inherited \in SUBSET ActionNames, perm \in BOOLEAN :
        get_actions(p, inherited, perm)

ActionsSpec == Init /\ [][ActionsNext]_vars

----------------------------------------------------------------------------
\* Properties

\* The step on which request p leaves the atomic block normally.
Commits(p) == pc[p] = "messaged" /\ pc'[p] = "done"

\* The step on which an exception raised by obj.save leaves the atomic block.
SaveAborts(p) == pc[p] = "saving" /\ pc'[p] = "failed"

\* C1: when _set_objects_active(S, t) completes, every record of S has
\* is_active = t and every record outside S is as it was before the commit.
C1_SelectionSetOthersKept ==
    [][\A p \in Procs : Commits(p) =>
          /\ \A r \in sel[p] : db'[r].is_active = target[p]
          /\ \A r \in Records \ sel[p] : db'[r] = db[r]]_vars

\* C1 witness: a committed invocation over a proper, non-empty selection, with a
\* record outside it that does not have the target state.
C1_Witness ==
    \E p \in Procs :
        /\ pc[p] = "done"
        /\ sel[p] # {} /\ sel[p] # Records
        /\ \A r \in sel[p] : db[r].is_active = target[p]
        /\ \E r \in Records \ sel[p] : db[r].is_active # target[p]

\* C2: when persisting a record fails, every selected record has the is_active
\* it had when the invocation read it (earlier saves are rolled back), the
\* table is as before, and the invocation has emitted no message.
C2_AllOrNothing ==
    [][\A p \in Procs : SaveAborts(p) =>
          /\ \A r \in sel[p] : db'[r].is_active = objs[p][r].is_active
          /\ db' = db
          /\ msgs'[p] = <<>>]_vars

\* C2 witness: an invocation failed after at least one save that would have
\* changed a record, and that record still has its old value.
C2_Witness ==
    \E p \in Procs :
        /\ pc[p] = "failed"
        /\ count[p] >= 1
        /\ db[Min(sel[p])].is_active # target[p]
        /\ msgs[p] = <<>>

\* C3: overlapping invocations serialize on the rows: no row is read or written
\* by two open invocations, an invocation only writes rows it holds, what it read
\* is the committed row (it sees the other's final state), and when both have
\* committed the overlapping rows all hold the target of the later commit.
C3_Serialized ==
    /\ \A p, q \in Procs : p # q => DOMAIN objs[p] \cap DOMAIN objs[q] = {}
    /\ \A p \in Procs :
        /\ DOMAIN wr[p] \subseteq DOMAIN objs[p]
        /\ \A r \in DOMAIN objs[p] : lock[r] = p /\ objs[p][r] = Instance(r, db[r])
    /\ \A p, q \in Procs :
        (p # q /\ pc[p] = "done" /\ pc[q] = "done") =>
            /\ lastCommit \in {p, q}
            /\ \A r \in sel[p] \cap sel[q] : db[r].is_active = target[lastCommit]

\* C3 witness: both invocations committed, with overlapping but different
\* selections and opposite targets.
C3_Witness ==
    /\ pc["p1"] = "done" /\ pc["p2"] = "done"
    /\ sel["p1"] \cap sel["p2"] # {}
    /\ sel["p1"] # sel["p2"]
    /\ target["p1"] # target["p2"]
    /\ lastCommit = "p2"

\* The wait itself: a request stands before a row another request holds.
C3_Blocked ==
    \E p \in Procs :
        /\ pc[p] = "locking"
        /\ lock[Min(sel[p] \ DOMAIN objs[p])] \notin {NoProc, p}

\* C4: toggle(S, t) run twice in a row: the second run leaves the table as the
\* first left it and both report the count |S|.
C4_Idempotent ==
    (/\ Len(hist) = 2
     /\ hist[1].sel = hist[2].sel
     /\ hist[1].target = hist[2].target) =>
        /\ db = hist[2].pre
        /\ hist[1].count = hist[2].count
        /\ hist[2].count = Cardinality(hist[2].sel)

\* C4 witness: the same non-empty toggle committed twice, the first run having
\* changed a record.
C4_Witness ==
    /\ Len(hist) = 2
    /\ hist[1].sel = hist[2].sel
    /\ hist[1].target = hist[2].target
    /\ \E r \in hist[1].sel : hist[1].pre[r].is_active # hist[1].target

\* toggle(S, t) followed by toggle(S, not t), as the last two commits.
InversePair ==
    /\ Len(hist) = 2
    /\ hist[1].sel = hist[2].sel
    /\ hist[1].target # hist[2].target

\* C5 as stated: toggle(S, t) then toggle(S, not t) restores the original
\* is_active of every record of S.
C5_RoundTripRestores ==
    InversePair => \A r \in hist[1].sel : db[r].is_active = hist[1].pre[r].is_active

\* C5 amended: toggle(S, t) then toggle(S, not t) leaves every record of S with
\* is_active = not t and every record outside S as it was; a record of S gets
\* its original is_active back exactly when that was not t.
C5_RoundTripAmended ==
    InversePair =>
        /\ \A r \in hist[1].sel :
            /\ db[r].is_active = ~hist[1].target
            /\ (db[r].is_active = hist[1].pre[r].is_active)
                    <=> (hist[1].pre[r].is_active # hist[1].target)
        /\ \A r \in Records \ hist[1].sel : db[r] = hist[1].pre[r]

\* C5 witness: an inverse pair over a selection with mixed original states.
C5_Witness ==
    /\ InversePair
    /\ \E r \in hist[1].sel : hist[1].pre[r].is_active = hist[1].target
    /\ \E r \in hist[1].sel : hist[1].pre[r].is_active # hist[1].target

\* C6: an invocation emits no message before its last save and exactly one
\* after it, naming the target ("activated" / "deactivated") and counting the
\* records of the selection whatever their prior is_active.
C6_OneMessage ==
    \A p \in Procs :
        /\ pc[p] \in {"messaged", "done"} =>
            /\ Len(msgs[p]) = 1
            /\ msgs[p][1].verb = (IF target[p] THEN "activated" ELSE "deactivated")
            /\ msgs[p][1].count = Cardinality(sel[p])
        /\ pc[p] \notin {"messaged", "done"} => msgs[p] = <<>>
        /\ pc[p] = "messaged" => DOMAIN wr[p] = sel[p]

\* C6 witness: {1 inactive, 2 active, 3 inactive} activated reports 3.
C6_Witness ==
    \E p \in Procs :
        /\ pc[p] = "messaged"
        /\ sel[p] = {1, 2, 3}
        /\ target[p]
        /\ ~objs[p][1].is_active /\ objs[p][2].is_active /\ ~objs[p][3].is_active
        /\ msgs[p] = <<[verb |-> "activated", count |-> 3, items |-> "verbose_name_plural"]>>

\* C7: no step of a toggle changes a stored field other than is_active; in
\* particular updated_by is not set to the acting user.
C7_OnlyIsActiveWritten ==
    [][\A r \in Records :
          /\ db'[r].exists = db[r].exists
          /\ db'[r].created_by = db[r].created_by
          /\ db'[r].updated_by = db[r].updated_by]_vars

\* C7 witness: a committed toggle over records last updated by another user.
C7_Witness ==
    \E p \in Procs :
        /\ pc[p] = "done"
        /\ sel[p] # {}
        /\ \A r \in sel[p] : db[r].is_active = target[p] /\ db[r].updated_by # RequestUser(p)

\* C8: every instance saved by save_model / save_formset is stored with
\* updated_by = the acting user, and with created_by = the acting user when it
\* had no pk and its previous created_by otherwise; so created_by is always the
\* user of the first save.
C8_UserStamping ==
    /\ \A s \in call.saved :
        /\ db[s.pk].exists
        /\ db[s.pk].updated_by = call.user
        /\ s.new => db[s.pk].created_by = call.user
        /\ ~s.new => db[s.pk].created_by = s.created_by
    /\ \A r \in Records : db[r].exists => db[r].created_by = creator[r]

\* C8 witness: an existing instance saved by a user other than its creator.
C8_Witness ==
    \E s \in call.saved :
        /\ ~s.new
        /\ db[s.pk].updated_by = call.user
        /\ db[s.pk].created_by # call.user

C10_GetActions ==
    \A p \in Procs : menu[p].called =>
        /\ menu[p].perm => menu[p].actions = menu[p].inherited
        /\ ~menu[p].perm =>
            /\ "delete_selected" \notin menu[p].actions
            /\ menu[p].actions \subseteq menu[p].inherited
            /\ menu[p].inherited \ {"delete_selected"} \subseteq menu[p].actions

\* C10 witness: delete_selected inherited and removed for a user without the
\* permission, the other actions kept.
C10_Witness ==
    \E p \in Procs :
        /\ menu[p].called
        /\ ~menu[p].perm
        /\ "delete_selected" \in menu[p].inherited
        /\ menu[p].actions = {"activate_objects", "deactivate_objects"}

====
